---- MODULE Spec2Model ----
(***************************************************************************)
(* Retrieval-and-ranking pipeline of the BD tour guide backend:            *)
(*   app/rag.py         extract_location_info, calculate_relevance_score,  *)
(*                      filter_and_rank_places                             *)
(*   app/embed_faiss.py create_embeddings (offline index build)            *)
(*   app/query.py       module load and query_ai (vector retrieval)        *)
(* Python strings are modelled as sequences of one-character strings, so   *)
(* that lower(), the substring test `in`, == and len() are computed.       *)
(***************************************************************************)
EXTENDS Integers, Sequences, FiniteSets, TLC

VARIABLES
    pc,             \* position of the keyword pipeline: start, extracted, ranked
    query,          \* the query string of the request
    places,         \* data/places.json as loaded by load_places_data / create_embeddings
    location_info,  \* the dict returned by extract_location_info
    ranked,         \* the list returned by filter_and_rank_places
    build_pc,       \* position of create_embeddings
    texts,          \* create_embeddings: the texts to embed
    embeddings,     \* create_embeddings: the vectors accumulated so far
    index_file,     \* the persisted FAISS index at FAISS_INDEX_PATH
    mapping_file,   \* the persisted ../data/place_mapping.json
    q_index,        \* query.py: the index read at module load
    q_places,       \* query.py: the place mapping read at module load
    search_D,       \* query_ai: the distances D[0] returned by index.search
    search_I,       \* query_ai: the labels I[0] returned by index.search
    retrieved,      \* query_ai: the records looked up from the labels
    request,        \* the last request served and what its collaborators did
    response,       \* what the last request returned or raised
    llm_prompt      \* the prompt the last request sent to the text generator

rank_vars == <<pc, query, location_info, ranked>>
index_vars == <<build_pc, texts, embeddings, index_file, mapping_file,
                q_index, q_places, search_D, search_I, retrieved>>
serve_vars == <<request, response, llm_prompt>>
vars == <<pc, query, places, location_info, ranked, build_pc, texts, embeddings,
          index_file, mapping_file, q_index, q_places, search_D, search_I, retrieved,
          request, response, llm_prompt>>

(***************************************************************************)
(* Python str and list primitives                                          *)
(***************************************************************************)
UpperLetters == <<"A","B","C","D","E","F","G","H","I","J","K","L","M",
                  "N","O","P","Q","R","S","T","U","V","W","X","Y","Z">>
LowerLetters == <<"a","b","c","d","e","f","g","h","i","j","k","l","m",
                  "n","o","p","q","r","s","t","u","v","w","x","y","z">>

LowerChar(c) ==
    IF \E i \in DOMAIN UpperLetters : UpperLetters[i] = c
    THEN LowerLetters[CHOOSE i \in DOMAIN UpperLetters : UpperLetters[i] = c]
    ELSE c

\* str.lower()
Lower(s) == [i \in DOMAIN s |-> LowerChar(s[i])]

\* `sub in s` for two strings
Contains(sub, s) ==
    \E i \in 0..(Len(s) - Len(sub)) : SubSeq(s, i + 1, i + Len(sub)) = sub

Digits == <<"0","1","2","3","4","5","6","7","8","9">>

\* the decimal text an f-string gives a non-negative int
RECURSIVE Str(_)
Str(n) == IF n < 10 THEN <<Digits[n + 1]>>
          ELSE Str(n \div 10) \o <<Digits[(n % 10) + 1]>>

Min(S) == CHOOSE x \in S : \A y \in S : x <= y

\* list[:k]: the first k elements, or all but the last -k when k is negative
SliceTo(s, k) ==
    IF k >= 0 THEN SubSeq(s, 1, IF k < Len(s) THEN k ELSE Len(s))
    ELSE SubSeq(s, 1, IF Len(s) + k > 0 THEN Len(s) + k ELSE 0)

Range(s) == {s[i] : i \in DOMAIN s}

(***************************************************************************)
(* extract_location_info: keyword tables, in declaration order             *)
(***************************************************************************)
divisions == <<
    [name |-> <<"d","h","a","k","a">>,      keywords |-> << <<"d","h","a","k","a">> >>],
    [name |-> <<"c","h","i","t","t","a","g","o","n","g">>, keywords |-> << <<"c","h","i","t","t","a","g","o","n","g">>, <<"c","h","a","t","t","o","g","r","a","m">>, <<"c","t","g">> >>],
    [name |-> <<"k","h","u","l","n","a">>,     keywords |-> << <<"k","h","u","l","n","a">> >>],
    [name |-> <<"s","y","l","h","e","t">>,     keywords |-> << <<"s","y","l","h","e","t">> >>],
    [name |-> <<"b","a","r","i","s","a","l">>,    keywords |-> << <<"b","a","r","i","s","a","l">>, <<"b","a","r","i","s","h","a","l">> >>],
    [name |-> <<"r","a","j","s","h","a","h","i">>,   keywords |-> << <<"r","a","j","s","h","a","h","i">> >>],
    [name |-> <<"r","a","n","g","p","u","r">>,    keywords |-> << <<"r","a","n","g","p","u","r">> >>],
    [name |-> <<"m","y","m","e","n","s","i","n","g","h">>, keywords |-> << <<"m","y","m","e","n","s","i","n","g","h">> >>] >>

specific_places == <<
    [name |-> <<"r","a","n","g","a","m","a","t","i">>,     keywords |-> << <<"r","a","n","g","a","m","a","t","i">> >>],
    [name |-> <<"c","o","x","'","s"," ","b","a","z","a","r">>,   keywords |-> << <<"c","o","x">>, <<"c","o","x","s"," ","b","a","z","a","r">>, <<"c","o","x","'","s"," ","b","a","z","a","r">>, <<"c","o","x","s","b","a","z","a","r">> >>],
    [name |-> <<"s","u","n","d","a","r","b","a","n","s">>,    keywords |-> << <<"s","u","n","d","a","r","b","a","n">>, <<"s","u","n","d","a","r","b","a","n","s">> >>],
    [name |-> <<"b","a","n","d","a","r","b","a","n">>,     keywords |-> << <<"b","a","n","d","a","r","b","a","n">> >>],
    [name |-> <<"s","a","j","e","k">>,         keywords |-> << <<"s","a","j","e","k">> >>],
    [name |-> <<"s","a","i","n","t"," ","m","a","r","t","i","n">>,  keywords |-> << <<"s","a","i","n","t"," ","m","a","r","t","i","n">>, <<"s","t"," ","m","a","r","t","i","n">> >>],
    [name |-> <<"k","u","a","k","a","t","a">>,       keywords |-> << <<"k","u","a","k","a","t","a">> >>],
    [name |-> <<"r","a","t","a","r","g","u","l">>,      keywords |-> << <<"r","a","t","a","r","g","u","l">> >>],
    [name |-> <<"s","r","i","m","a","n","g","a","l">>,     keywords |-> << <<"s","r","i","m","a","n","g","a","l">>, <<"s","r","e","e","m","a","n","g","a","l">> >>],
    [name |-> <<"p","a","h","a","r","p","u","r">>,      keywords |-> << <<"p","a","h","a","r","p","u","r">> >>],
    [name |-> <<"m","a","h","a","s","t","h","a","n","g","a","r","h">>, keywords |-> << <<"m","a","h","a","s","t","h","a","n","g","a","r","h">> >>],
    [name |-> <<"j","a","f","l","o","n","g">>,       keywords |-> << <<"j","a","f","l","o","n","g">> >>],
    [name |-> <<"t","a","n","g","u","a","r"," ","h","a","o","r">>,  keywords |-> << <<"t","a","n","g","u","a","r">>, <<"t","a","n","g","u","a","r"," ","h","a","o","r">> >> ] >>

general_words == << <<"b","a","n","g","l","a","d","e","s","h">>, <<"b","d">>, <<"c","o","u","n","t","r","y">>, <<"n","a","t","i","o","n">> >>

\* count when the query holds no count phrase
DefaultCount == 10
\* the numbers tried are range(1, 51)
MaxNum == 50

\* f'top {num}' in q or f'{num} spot' in q or f'{num} place' in q
CountPhraseIn(num, query_lower) ==
    \/ Contains(<<"t","o","p"," ">> \o Str(num), query_lower)
    \/ Contains(Str(num) \o <<" ","s","p","o","t">>, query_lower)
    \/ Contains(Str(num) \o <<" ","p","l","a","c","e">>, query_lower)

\* the loop over range(1, 51) with its break: the smallest num whose phrase occurs
ExtractCount(query_lower) ==
    LET hits == {num \in 1..MaxNum : CountPhraseIn(num, query_lower)}
    IN  IF hits = {} THEN DefaultCount ELSE Min(hits)

\* whether any keyword of a table entry occurs in the lower-cased query
EntryMatches(entry, query_lower) ==
    \E k \in DOMAIN entry.keywords : Contains(entry.keywords[k], query_lower)

\* a plausible slip: the loops run on without returning, so the last match wins
FirstMatch_last(table, query_lower) ==
    LET hits == {i \in DOMAIN table : EntryMatches(table[i], query_lower)}
    IN  IF hits = {} THEN 0 ELSE CHOOSE x \in hits : \A y \in hits : y <= x

\* the first entry, in declaration order, with a keyword in the query; 0 if none
FirstMatch(table, query_lower) ==
    LET hits == {i \in DOMAIN table : EntryMatches(table[i], query_lower)}
    IN  IF hits = {} THEN 0 ELSE Min(hits)

extract_location_info(q) ==
    LET query_lower == Lower(q)
        count == ExtractCount(query_lower)
        sp == FirstMatch(specific_places, query_lower)
        dv == FirstMatch(divisions, query_lower)
    IN  IF sp # 0
        THEN [location |-> specific_places[sp].name, type |-> "specific", count |-> count,
              search_keywords |-> <<specific_places[sp].name>> \o specific_places[sp].keywords]
        ELSE IF dv # 0
        THEN [location |-> divisions[dv].name, type |-> "division", count |-> count,
              search_keywords |-> divisions[dv].keywords]
        ELSE IF \E w \in DOMAIN general_words : Contains(general_words[w], query_lower)
        THEN [location |-> <<"b","a","n","g","l","a","d","e","s","h">>, type |-> "general", count |-> count,
              search_keywords |-> << <<"b","a","n","g","l","a","d","e","s","h">> >>]
        ELSE [location |-> q, type |-> "unknown", count |-> count,
              search_keywords |-> <<q>>]

(***************************************************************************)
(* calculate_relevance_score                                               *)
(***************************************************************************)
famous_keywords == << <<"c","o","x">>, <<"s","u","n","d","a","r","b","a","n">>, <<"s","a","i","n","t"," ","m","a","r","t","i","n">>, <<"r","a","n","g","a","m","a","t","i">>, <<"b","a","n","d","a","r","b","a","n">>,
                      <<"s","a","j","e","k">>, <<"k","u","a","k","a","t","a">>, <<"p","a","h","a","r","p","u","r">>, <<"r","a","t","a","r","g","u","l">>, <<"s","r","i","m","a","n","g","a","l">> >>

\* a plausible slip: the place name is compared without lower-casing it
SpecificKeywordScore_case_sensitive(keyword, place) ==
    LET keyword_lower == Lower(keyword)
        place_name == place.name
    IN  (IF keyword_lower = place_name THEN 50
         ELSE IF Contains(keyword_lower, place_name) THEN 30 ELSE 0)
      + (IF Contains(keyword_lower, Lower(place.description)) THEN 15 ELSE 0)
      + (IF Contains(keyword_lower, Lower(place.url)) THEN 10 ELSE 0)
      + (IF Contains(keyword_lower, Lower(place.division)) THEN 5 ELSE 0)

\* one pass of the loop body of the 'specific' branch
SpecificKeywordScore(keyword, place) ==
    LET keyword_lower == Lower(keyword)
        place_name == Lower(place.name)
    IN  (IF keyword_lower = place_name THEN 50
         ELSE IF Contains(keyword_lower, place_name) THEN 30 ELSE 0)
      + (IF Contains(keyword_lower, Lower(place.description)) THEN 15 ELSE 0)
      + (IF Contains(keyword_lower, Lower(place.url)) THEN 10 ELSE 0)
      + (IF Contains(keyword_lower, Lower(place.division)) THEN 5 ELSE 0)

\* a plausible slip: the place division is compared without lower-casing it
DivisionKeywordScore_case_sensitive(keyword, place) ==
    LET keyword_lower == Lower(keyword)
        place_division == place.division
    IN  (IF keyword_lower = place_division THEN 40
         ELSE IF Contains(keyword_lower, place_division) THEN 25 ELSE 0)
      + (IF Contains(keyword_lower, Lower(place.description)) THEN 15 ELSE 0)
      + (IF Contains(keyword_lower, Lower(place.url)) THEN 10 ELSE 0)
      + (IF Contains(keyword_lower, Lower(place.name)) THEN 5 ELSE 0)

\* one pass of the loop body of the 'division' branch
DivisionKeywordScore(keyword, place) ==
    LET keyword_lower == Lower(keyword)
        place_division == Lower(place.division)
    IN  (IF keyword_lower = place_division THEN 40
         ELSE IF Contains(keyword_lower, place_division) THEN 25 ELSE 0)
      + (IF Contains(keyword_lower, Lower(place.description)) THEN 15 ELSE 0)
      + (IF Contains(keyword_lower, Lower(place.url)) THEN 10 ELSE 0)
      + (IF Contains(keyword_lower, Lower(place.name)) THEN 5 ELSE 0)

\* a plausible slip: the loop breaks at the first keyword that scores
RECURSIVE SumSpecific_short_circuit(_, _)
SumSpecific_short_circuit(keywords, place) ==
    IF keywords = << >> THEN 0
    ELSE IF SpecificKeywordScore(Head(keywords), place) > 0
         THEN SpecificKeywordScore(Head(keywords), place)
         ELSE SumSpecific_short_circuit(Tail(keywords), place)

\* for keyword in search_keywords: score += ...
RECURSIVE SumSpecific(_, _)
SumSpecific(keywords, place) ==
    IF keywords = << >> THEN 0
    ELSE SpecificKeywordScore(Head(keywords), place) + SumSpecific(Tail(keywords), place)

RECURSIVE SumDivision(_, _)
SumDivision(keywords, place) ==
    IF keywords = << >> THEN 0
    ELSE DivisionKeywordScore(Head(keywords), place) + SumDivision(Tail(keywords), place)

\* whether a famous keyword occurs in the lower-cased name or description
FamousMatch(keyword, place) ==
    \/ Contains(keyword, Lower(place.name))
    \/ Contains(keyword, Lower(place.description))

\* a plausible slip: no break, every famous keyword that matches adds 30
GeneralScore_no_break(place) ==
    LET n == Cardinality({k \in DOMAIN famous_keywords : FamousMatch(famous_keywords[k], place)})
    IN  IF n = 0 THEN 0
        ELSE 30 * n
             + (IF place.description # << >> /\ Len(place.description) > 50 THEN 5 ELSE 0)
             + (IF place.image # << >> THEN 5 ELSE 0)

\* the 'general' branch: the first famous keyword that matches adds 30 and breaks
GeneralScore(place) ==
    IF ~ \E k \in DOMAIN famous_keywords : FamousMatch(famous_keywords[k], place)
    THEN 0
    ELSE 30
         + (IF place.description # << >> /\ Len(place.description) > 50 THEN 5 ELSE 0)
         + (IF place.image # << >> THEN 5 ELSE 0)

calculate_relevance_score(place, info) ==
    IF info.type = "specific" THEN SumSpecific(info.search_keywords, place)
    ELSE IF info.type = "division" THEN SumDivision(info.search_keywords, place)
    ELSE IF info.type = "general" THEN GeneralScore(place)
    ELSE 0

(***************************************************************************)
(* filter_and_rank_places                                                  *)
(***************************************************************************)
\* a plausible slip: the threshold keeps a score of exactly 5
PassesThreshold_inclusive(score) == score >= 5

\* if score > 5
PassesThreshold(score) == score > 5

\* place_copy['_relevance_score'] = score: the record with one more field
SetScore(place, score) ==
    [f \in DOMAIN place \cup {"_relevance_score"} |->
        IF f = "_relevance_score" THEN score ELSE place[f]]

\* a plausible slip: the score is set on the input record, which is then copied
ScoreAndCopy_in_place(place, score) ==
    [place |-> SetScore(place, score), place_copy |-> SetScore(place, score)]

\* place_copy = place.copy(); place_copy['_relevance_score'] = score:
\* what the input record and the appended copy are afterwards
ScoreAndCopy(place, score) ==
    [place |-> place, place_copy |-> SetScore(place, score)]

\* the loop that builds scored_places: the copies that pass, in input order
RECURSIVE ScoredPlaces(_, _)
ScoredPlaces(ps, info) ==
    IF ps = << >> THEN << >>
    ELSE LET score == calculate_relevance_score(Head(ps), info)
         IN  (IF PassesThreshold(score)
              THEN << ScoreAndCopy(Head(ps), score).place_copy >>
              ELSE << >>)
             \o ScoredPlaces(Tail(ps), info)

\* the caller's list after the loop: the records the loop has touched
PlacesAfterRanking(ps, info) ==
    [i \in DOMAIN ps |->
        LET score == calculate_relevance_score(ps[i], info)
        IN  IF PassesThreshold(score) THEN ScoreAndCopy(ps[i], score).place
            ELSE ps[i]]

\* insert x behind every element whose key is >= its own (keeps equal keys in order)
RECURSIVE InsertStable(_, _)
InsertStable(sorted, x) ==
    IF sorted = << >> THEN <<x>>
    ELSE IF Head(sorted)._relevance_score >= x._relevance_score
         THEN <<Head(sorted)>> \o InsertStable(Tail(sorted), x)
         ELSE <<x>> \o sorted

RECURSIVE SortFrom(_, _)
SortFrom(sorted, rest) ==
    IF rest = << >> THEN sorted
    ELSE SortFrom(InsertStable(sorted, Head(rest)), Tail(rest))

Reverse(s) == [i \in DOMAIN s |-> s[Len(s) + 1 - i]]

\* a plausible slip: an ascending sort reversed afterwards, which reverses ties
SortDescending_reversed(scored) == SortFrom(<< >>, Reverse(scored))

\* list.sort(key=score, reverse=True): descending, equal keys keep their order
SortDescending(scored) == SortFrom(<< >>, scored)

\* place.pop('_relevance_score', None)
PopScore(place) == [f \in DOMAIN place \ {"_relevance_score"} |-> place[f]]

\* the final loop pops '_relevance_score' from every copy
StripScores(scored) == [i \in DOMAIN scored |-> PopScore(scored[i])]

\* a plausible slip: the ranking is cut to the count asked for in the query
filter_and_rank_places_top_count(ps, info) ==
    SliceTo(StripScores(SortDescending(ScoredPlaces(ps, info))), info.count)

filter_and_rank_places(ps, info) ==
    StripScores(SortDescending(ScoredPlaces(ps, info)))

(***************************************************************************)
(* Inputs: place records and queries                                       *)
(***************************************************************************)
\* a record of data/places.json; a missing or null field is the empty string,
\* which every read in rag.py and embed_faiss.py treats alike
Place(name, division, description, url, image, categories) ==
    [name |-> name, division |-> division, description |-> description,
     url |-> url, image |-> image, categories |-> categories]

\* longest place collection drawn for the keyword pipeline
MaxPlaces == 3

CoxsBazar ==
    Place(<<"C","o","x","'","s"," ","B","a","z","a","r">>, <<"C","h","i","t","t","a","g","o","n","g">>, << >>, << >>, << >>, << <<"B","e","a","c","h">> >>)
Himchari ==     \* description of exactly 50 characters
    Place(<<"H","i","m","c","h","a","r","i">>, <<"C","h","i","t","t","a","g","o","n","g">>,
          <<"w","a","t","e","r","f","a","l","l"," ","n","e","a","r"," ","c","o","x","'","s"," ","b","a","z","a","r"," ","(","c","o","x","s"," ","b","a","z","a","r",","," ","c","o","x","s","b","a","z","a","r",")">>,
          << >>, <<"h",".","j","p","g">>, << <<"W","a","t","e","r","f","a","l","l">> >>)
Ratargul ==
    Place(<<"R","a","t","a","r","g","u","l"," ","S","w","a","m","p"," ","F","o","r","e","s","t">>, <<"S","y","l","h","e","t">>,
          <<"s","w","a","m","p"," ","f","o","r","e","s","t"," ","i","n"," ","s","y","l","h","e","t",","," ","q","u","i","e","t","e","r"," ","t","h","a","n"," ","s","a","j","e","k"," ","o","r"," ","k","u","a","k","a","t","a">>,
          <<"w","i","k","i","/","R","a","t","a","r","g","u","l">>, <<"r",".","j","p","g">>, << <<"F","o","r","e","s","t">> >>)
Jaflong ==
    Place(<<"J","a","f","l","o","n","g">>, <<"S","y","l","h","e","t">>, << >>, << >>, << >>, << <<"G","e","n","e","r","a","l">> >>)
VillagePond ==
    Place(<<"U","n","n","a","m","e","d"," ","V","i","l","l","a","g","e"," ","P","o","n","d">>, <<"U","n","k","n","o","w","n">>,
          <<"a"," ","q","u","i","e","t"," ","v","i","l","l","a","g","e"," ","p","o","n","d"," ","i","n"," ","t","h","e"," ","s","y","l","h","e","t"," ","r","e","g","i","o","n"," ","w","i","t","h"," ","m","a","n","y"," ","b","i","r","d","s">>,
          << >>, <<"p",".","j","p","g">>, << <<"G","e","n","e","r","a","l">> >>)
SylhetRoad ==
    Place(<<"S","y","l","h","e","t"," ","R","o","a","d">>, <<"D","h","a","k","a">>, << >>, << >>, << >>, << <<"G","e","n","e","r","a","l">> >>)
Hakaluki ==     \* description of 51 characters
    Place(<<"H","a","k","a","l","u","k","i"," ","H","a","o","r">>, <<"U","n","k","n","o","w","n">>,
          <<"a"," ","w","i","d","e"," ","h","a","o","r"," ","n","o","r","t","h"," ","o","f"," ","s","y","l","h","e","t",","," ","s","o"," ","c","a","l","m","e","r"," ","t","h","a","n"," ","k","u","a","k","a","t","a">>,
          << >>, << >>, << <<"G","e","n","e","r","a","l">> >>)

PlacePool == {CoxsBazar, Himchari, Ratargul, Jaflong, VillagePond,
              SylhetRoad, Hakaluki}

\* sequences without repetition (ingest.py deduplicates by name), up to length n
InjectiveSeqs(S, n) ==
    UNION {{s \in [1..k -> S] : \A i, j \in 1..k : i # j => s[i] # s[j]} : k \in 0..n}

PlaceCollections == InjectiveSeqs(PlacePool, MaxPlaces)

Q_top5_sylhet == <<"t","o","p"," ","5"," ","s","p","o","t","s"," ","i","n"," ","S","y","l","h","e","t">>
Q_coxs_bazar == <<"C","o","x","'","s"," ","B","a","z","a","r">>

RankQueries == {Q_top5_sylhet, Q_coxs_bazar, <<"t","o","p"," ","3"," ","s","p","o","t","s"," ","i","n"," ","s","y","l","h","e","t">>,
                <<"b","e","s","t"," ","p","l","a","c","e","s"," ","i","n"," ","B","a","n","g","l","a","d","e","s","h">>, <<"S","a","j","e","k">>, <<"h","e","l","l","o">>}

\* str.upper(), used only to vary the casing of the queries
UpperChar(c) ==
    IF \E i \in DOMAIN LowerLetters : LowerLetters[i] = c
    THEN UpperLetters[CHOOSE i \in DOMAIN LowerLetters : LowerLetters[i] = c]
    ELSE c
Upper(s) == [i \in DOMAIN s |-> UpperChar(s[i])]

AllLandmarkKeywords ==
    UNION {Range(specific_places[i].keywords) : i \in DOMAIN specific_places}

\* a landmark keyword, lower or upper case, alone or followed by a division
\* keyword or a generic country term
LandmarkQueries ==
    {cased \o post : cased \in AllLandmarkKeywords \cup {Upper(k) : k \in AllLandmarkKeywords},
                     post \in { << >>, <<" ","i","n"," ","d","h","a","k","a">>, <<" ","B","a","n","g","l","a","d","e","s","h">> }}

\* two different landmarks in one query
TwoLandmarkQueries ==
    {specific_places[p[1]].name \o <<" ","o","r"," ">> \o specific_places[p[2]].name :
        p \in {pp \in (DOMAIN specific_places) \X (DOMAIN specific_places) : pp[1] # pp[2]}}

\* queries whose only count phrase is "top N", "N spot(s)" or "N place(s)"
TopQuery(n) == <<"t","o","p"," ">> \o Str(n) \o <<" ","i","n"," ","s","y","l","h","e","t">>
SpotQuery(n) == Str(n) \o <<" ","s","p","o","t","s"," ","i","n"," ","s","y","l","h","e","t">>
PlaceQuery(n) == Str(n) \o <<" ","p","l","a","c","e","s"," ","n","e","a","r"," ","d","h","a","k","a">>
CountQueries == UNION {{TopQuery(n), SpotQuery(n), PlaceQuery(n)} : n \in 1..MaxNum}

ExtractQueries == LandmarkQueries \cup TwoLandmarkQueries \cup CountQueries \cup RankQueries

(***************************************************************************)
(* The keyword pipeline as a state machine                                 *)
(***************************************************************************)
NoInfo == [location |-> << >>, type |-> "none", count |-> 0, search_keywords |-> << >>]

NoFile == [exists |-> FALSE, content |-> << >>]

NoRetrieved == [raised |-> FALSE, spots |-> << >>]

IndexIdle ==
    /\ build_pc = "idle"
    /\ texts = << >>
    /\ embeddings = << >>
    /\ index_file = NoFile
    /\ mapping_file = NoFile
    /\ q_index = NoFile
    /\ q_places = NoFile
    /\ search_D = << >>
    /\ search_I = << >>
    /\ retrieved = NoRetrieved

NoRequest == [endpoint |-> "none"]

NoResponse == [raised |-> FALSE, value |-> [success |-> FALSE, error |-> << >>]]

NoPrompt == [sent |-> FALSE]

ServeIdle ==
    /\ request = NoRequest
    /\ response = NoResponse
    /\ llm_prompt = NoPrompt

RankStart ==
    /\ pc = "start"
    /\ location_info = NoInfo
    /\ ranked = << >>

\* a request against the dataset: any query of the ranking set, any collection
Init ==
    /\ RankStart
    /\ query \in RankQueries
    /\ places \in PlaceCollections
    /\ IndexIdle
    /\ ServeIdle

\* the extractor alone, over the wide query set
InitExtract ==
    /\ RankStart
    /\ query \in ExtractQueries
    /\ places = << >>
    /\ IndexIdle
    /\ ServeIdle

ExtractLocationInfo ==
    /\ pc = "start"
    /\ location_info' = extract_location_info(query)
    /\ pc' = "extracted"
    /\ UNCHANGED <<query, places, ranked>>
    /\ UNCHANGED index_vars
    /\ UNCHANGED serve_vars

\* a call of filter_and_rank_places on the loaded list; it can be called again
FilterAndRankPlaces ==
    /\ pc \in {"extracted", "ranked"}
    /\ ranked' = filter_and_rank_places(places, location_info)
    /\ places' = PlacesAfterRanking(places, location_info)
    /\ pc' = "ranked"
    /\ UNCHANGED <<query, location_info>>
    /\ UNCHANGED index_vars
    /\ UNCHANGED serve_vars

Next ==
    \/ ExtractLocationInfo
    \/ FilterAndRankPlaces

Spec == Init /\ [][Next]_vars

SpecExtract == InitExtract /\ [][Next]_vars

(***************************************************************************)
(* create_embeddings (app/embed_faiss.py)                                  *)
(***************************************************************************)
batch_size == 10

\* longest place collection drawn for the index build
MaxIndexPlaces == 6

\* f"{p['name']}: {p['description']}"
TextOf(p) == p.name \o <<":"," ">> \o p.description

\* the comprehension: one text per place that has a description, in order
RECURSIVE Texts(_)
Texts(ps) ==
    IF ps = << >> THEN << >>
    ELSE (IF Head(ps).description # << >> THEN <<TextOf(Head(ps))>> ELSE << >>)
         \o Texts(Tail(ps))

\* the embedding service is opaque: the vector is a function of the text
Embed(text) == [vector_of |-> text]

\* texts[i:i + batch_size], embedded
EmbedSlice(ts, i) ==
    LET last == IF i + batch_size < Len(ts) THEN i + batch_size ELSE Len(ts)
    IN  [j \in 1..(last - i) |-> Embed(ts[i + j])]

IndexPlace(i, described) ==
    Place(<<"p","l","a","c","e">> \o Str(i), <<"U","n","k","n","o","w","n">>,
          IF described THEN <<"a","b","o","u","t"," ">> \o Str(i) ELSE << >>,
          << >>, << >>, << <<"G","e","n","e","r","a","l">> >>)

\* place1..placeN, any of them with or without a description
IndexCollections ==
    UNION {{[i \in 1..n |-> IndexPlace(i, i \in described)] : described \in SUBSET (1..n)} :
              n \in 0..MaxIndexPlaces}

\* the files a complete earlier build of another dataset left behind
OldPlaces == <<IndexPlace(0, TRUE)>>
OldIndexFile == [exists |-> TRUE, content |-> <<Embed(TextOf(OldPlaces[1]))>>]
OldMappingFile == [exists |-> TRUE, content |-> OldPlaces]

InitIndex ==
    /\ RankStart
    /\ query = << >>
    /\ places \in IndexCollections
    /\ build_pc = "idle"
    /\ texts = << >>
    /\ embeddings = << >>
    /\ \/ index_file = NoFile /\ mapping_file = NoFile
       \/ index_file = OldIndexFile /\ mapping_file = OldMappingFile
    /\ q_index = NoFile
    /\ q_places = NoFile
    /\ search_D = << >>
    /\ search_I = << >>
    /\ retrieved = NoRetrieved
    /\ ServeIdle

build_frame == <<pc, query, places, location_info, ranked,
                 q_index, q_places, search_D, search_I, retrieved,
                 request, response, llm_prompt>>

\* lines 13-19: load places.json, build the texts
StartBuild ==
    /\ build_pc = "idle"
    /\ texts' = Texts(places)
    /\ embeddings' = << >>
    /\ build_pc' = "embedding"
    /\ UNCHANGED <<index_file, mapping_file>>
    /\ UNCHANGED build_frame

\* one pass of the batch loop, the embedding call answering
EmbedBatch ==
    /\ build_pc = "embedding"
    /\ Len(embeddings) < Len(texts)
    /\ embeddings' = embeddings \o EmbedSlice(texts, Len(embeddings))
    /\ UNCHANGED <<build_pc, texts, index_file, mapping_file>>
    /\ UNCHANGED build_frame

\* one pass of the batch loop, the embedding call raising: the job dies
EmbedBatchFails ==
    /\ build_pc = "embedding"
    /\ Len(embeddings) < Len(texts)
    /\ build_pc' = "failed"
    /\ UNCHANGED <<texts, embeddings, index_file, mapping_file>>
    /\ UNCHANGED build_frame

\* lines 34-42: with no vector embeddings.shape[1] raises; else the index of
\* all vectors, in order, is written to FAISS_INDEX_PATH
WriteIndex ==
    /\ build_pc = "embedding"
    /\ Len(embeddings) = Len(texts)
    /\ IF embeddings = << >>
       THEN build_pc' = "failed" /\ UNCHANGED index_file
       ELSE build_pc' = "index_written"
            /\ index_file' = [exists |-> TRUE, content |-> embeddings]
    /\ UNCHANGED <<texts, embeddings, mapping_file>>
    /\ UNCHANGED build_frame

\* faiss.write_index raising
WriteIndexFails ==
    /\ build_pc = "embedding"
    /\ Len(embeddings) = Len(texts)
    /\ embeddings # << >>
    /\ build_pc' = "failed"
    /\ UNCHANGED <<texts, embeddings, index_file, mapping_file>>
    /\ UNCHANGED build_frame

\* lines 44-45: json.dump(places, f), all places of places.json
WriteMapping ==
    /\ build_pc = "index_written"
    /\ mapping_file' = [exists |-> TRUE, content |-> places]
    /\ build_pc' = "done"
    /\ UNCHANGED <<texts, embeddings, index_file>>
    /\ UNCHANGED build_frame

\* opening place_mapping.json for writing raising
WriteMappingFails ==
    /\ build_pc = "index_written"
    /\ build_pc' = "failed"
    /\ UNCHANGED <<texts, embeddings, index_file, mapping_file>>
    /\ UNCHANGED build_frame

(***************************************************************************)
(* app/query.py: module load and query_ai                                  *)
(***************************************************************************)
TOP_K == 5

\* largest distance the query vector is given to an indexed vector
MaxDist == 1

\* the distance FAISS reports for a result slot it could not fill
PadDistance == MaxDist + 1

\* positions 0..n-1 in ascending (distance, position) order
RECURSIVE NearestFirst(_, _)
NearestFirst(dist, remaining) ==
    IF remaining = {} THEN << >>
    ELSE LET best == CHOOSE i \in remaining :
                        \A j \in remaining :
                            \/ dist[i + 1] < dist[j + 1]
                            \/ dist[i + 1] = dist[j + 1] /\ i <= j
         IN  <<best>> \o NearestFirst(dist, remaining \ {best})

\* I[0] of index.search(query_vector, k) on a flat index of n vectors: the k
\* nearest positions, nearest first, padded with -1 when n < k
SearchLabels(dist, n, k) ==
    LET order == NearestFirst(dist, 0..(n - 1))
    IN  [j \in 1..k |-> IF j <= n THEN order[j] ELSE -1]

\* D[0] of the same call
SearchDistances(dist, labels) ==
    [j \in DOMAIN labels |-> IF labels[j] >= 0 THEN dist[labels[j] + 1] ELSE PadDistance]

\* list[i] of Python: a negative i counts from the end
PyIndexValid(list, i) == -Len(list) <= i /\ i < Len(list)
PyIndex(list, i) == IF i >= 0 THEN list[i + 1] ELSE list[Len(list) + i + 1]

\* module load: index = faiss.read_index(...), places = json.load(mapping).
\* The module is loaded while no build is running (a rebuild must not run
\* beside the serving process).
LoadQueryModule ==
    /\ build_pc \in {"idle", "done", "failed"}
    /\ ~ q_index.exists
    /\ index_file.exists
    /\ mapping_file.exists
    /\ q_index' = index_file
    /\ q_places' = mapping_file
    /\ UNCHANGED <<pc, query, places, location_info, ranked>>
    /\ UNCHANGED serve_vars
    /\ UNCHANGED <<build_pc, texts, embeddings, index_file, mapping_file>>
    /\ UNCHANGED <<search_D, search_I, retrieved>>

\* query_ai: the query vector has some distance to every indexed vector; the
\* search returns TOP_K labels; every label is looked up in places
QueryAi ==
    /\ q_index.exists
    /\ \E dist \in [1..Len(q_index.content) -> 0..MaxDist] :
           LET labels == SearchLabels(dist, Len(q_index.content), TOP_K)
           IN  /\ search_I' = labels
               /\ search_D' = SearchDistances(dist, labels)
               /\ retrieved' =
                      IF \A j \in DOMAIN labels : PyIndexValid(q_places.content, labels[j])
                      THEN [raised |-> FALSE,
                            spots |-> [j \in DOMAIN labels |-> PyIndex(q_places.content, labels[j])]]
                      ELSE [raised |-> TRUE, spots |-> << >>]
    /\ UNCHANGED <<pc, query, places, location_info, ranked>>
    /\ UNCHANGED serve_vars
    /\ UNCHANGED <<build_pc, texts, embeddings, index_file, mapping_file>>
    /\ UNCHANGED <<q_index, q_places>>

NextIndex ==
    \/ StartBuild
    \/ EmbedBatch
    \/ EmbedBatchFails
    \/ WriteIndex
    \/ WriteIndexFails
    \/ WriteMapping
    \/ WriteMappingFails
    \/ LoadQueryModule
    \/ QueryAi

SpecIndex == InitIndex /\ [][NextIndex]_vars

(***************************************************************************)
(* Serving: rag.get_tour_suggestions and the handlers of main.py           *)
(***************************************************************************)
IsLetter(c) ==
    \E i \in DOMAIN LowerLetters : c = LowerLetters[i] \/ c = UpperLetters[i]

\* str.title(): a letter after a non-letter is upper case, the others lower
Title(s) ==
    [i \in DOMAIN s |->
        IF i = 1 \/ ~IsLetter(s[i - 1]) THEN UpperChar(s[i]) ELSE LowerChar(s[i])]

RECURSIVE LStrip(_)
LStrip(s) == IF s # << >> /\ Head(s) = " " THEN LStrip(Tail(s)) ELSE s

RECURSIVE RStrip(_)
RStrip(s) ==
    IF s # << >> /\ s[Len(s)] = " " THEN RStrip(SubSeq(s, 1, Len(s) - 1)) ELSE s

\* str.strip()
Strip(s) == RStrip(LStrip(s))

\* dict.get(key, default)
Get(d, key, default) == IF key \in DOMAIN d THEN d[key] ELSE default

\* a call that returned v
Returned(v) == [raised |-> FALSE, value |-> v]

\* a call that raised an exception e, with str(e) = message
Raised(message) == [raised |-> TRUE, message |-> message]

\* fastapi.HTTPException; its str() is "<status_code>: <detail>"
HTTPException(status_code, detail) ==
    [raised |-> TRUE, status_code |-> status_code, detail |-> detail,
     message |-> Str(status_code) \o <<":"," ">> \o detail]

\* what the collaborators of one request do: reading places.json and the
\* text-generation call each succeed or raise
Envs == [load_fails : BOOLEAN, generate_fails : BOOLEAN]

LoadError == <<"[","E","r","r","n","o"," ","2","]"," ","N","o"," ","s","u","c","h"," ","f","i","l","e"," ","o","r"," ","d","i","r","e","c","t","o","r","y",":"," ","'","p","l","a","c","e","s",".","j","s","o","n","'">>
GenerateError == <<"5","0","3"," ","T","h","e"," ","m","o","d","e","l"," ","i","s"," ","o","v","e","r","l","o","a","d","e","d",".">>
ReplyText == <<"A","s","s","a","l","a","m","u"," ","a","l","a","i","k","u","m","!"," ","H","e","r","e"," ","i","s"," ","w","h","e","r","e"," ","I"," ","w","o","u","l","d"," ","t","a","k","e"," ","y","o","u",".">>

\* with open(places_path) as f: return json.load(f)
load_places_data(env, file) ==
    IF env.load_fails THEN Raised(LoadError) ELSE Returned(file)

\* one numbered entry of spots_context
SpotContext(spot) ==
    [name |-> spot.name,
     division |-> spot.division,
     description |-> IF Len(spot.description) > 200
                     THEN SubSeq(spot.description, 1, 200) \o <<".",".",".">>
                     ELSE spot.description]

\* the prompt: the query, the titled location and the first 10 spots
FriendlyPrompt(q, spots, info) ==
    [query |-> q,
     location_name |-> Title(info.location),
     spots_context |-> [i \in DOMAIN SliceTo(spots, 10) |-> SpotContext(spots[i])]]

Sent(prompt) == [sent |-> TRUE, prompt |-> prompt]

\* response = model.generate_content(prompt); return response.text
generate_friendly_response(q, spots, info, env) ==
    IF env.generate_fails THEN Raised(GenerateError) ELSE Returned(ReplyText)

NoMatchError == <<"N","o"," ","m","a","t","c","h","i","n","g"," ","t","o","u","r","i","s","t"," ","p","l","a","c","e","s"," ","f","o","u","n","d",".">>

\* a plausible slip: the empty ranking is not turned away
NoMatch_never(ranked_places) == FALSE

\* if not ranked_places
NoMatch(ranked_places) == ranked_places = << >>

\* the try block of get_tour_suggestions: what it returns or raises, and the
\* prompt it has sent to the text generator
TourSuggestionsTry(q, top_k, env, file) ==
    LET loaded == load_places_data(env, file)
    IN  IF loaded.raised THEN [outcome |-> loaded, prompt |-> NoPrompt]
        ELSE
        LET info == extract_location_info(q)
            ranked_places == filter_and_rank_places(loaded.value, info)
        IN  IF NoMatch(ranked_places)
            THEN [outcome |-> Returned([success |-> FALSE, error |-> NoMatchError]),
                  prompt |-> NoPrompt]
            ELSE
            LET final_spots == SliceTo(ranked_places, top_k)
                friendly_text == generate_friendly_response(q, final_spots, info, env)
            IN  [outcome |->
                    IF friendly_text.raised THEN friendly_text
                    ELSE Returned([success |-> TRUE,
                                   query |-> q,
                                   location |-> info.location,
                                   type |-> info.type,
                                   count |-> Len(final_spots),
                                   suggestions |-> final_spots,
                                   ai_message |-> friendly_text.value]),
                 prompt |-> Sent(FriendlyPrompt(q, final_spots, info))]

\* a plausible slip: no except clause, the exception leaves the function
CatchAll_uncaught(outcome) == outcome

\* except Exception as e: return {"success": False, "error": str(e)}
CatchAll(outcome) ==
    IF outcome.raised
    THEN Returned([success |-> FALSE, error |-> outcome.message])
    ELSE outcome

\* def get_tour_suggestions(query, top_k=20)
top_k_default == 20

get_tour_suggestions(q, top_k, env, file) ==
    LET try == TourSuggestionsTry(q, top_k, env, file)
    IN  [outcome |-> CatchAll(try.outcome), prompt |-> try.prompt]

\* except Exception as e: raise HTTPException(status_code=500, detail=str(e))
RaiseHttp500(outcome) ==
    IF outcome.raised THEN HTTPException(500, outcome.message) ELSE outcome

\* the try block of the POST /api/query handler
QueryPlacesTry(payload, env, file) ==
    LET q == Strip(Get(payload, "query", << >>))
    IN  IF q = << >>
        THEN [outcome |-> HTTPException(400, <<"Q","u","e","r","y"," ","i","s"," ","r","e","q","u","i","r","e","d",".">>), prompt |-> NoPrompt]
        ELSE
        LET loaded == load_places_data(env, file)
        IN  IF loaded.raised THEN [outcome |-> loaded, prompt |-> NoPrompt]
            ELSE
            LET info == extract_location_info(q)
                ranked_places == filter_and_rank_places(loaded.value, info)
                response_text ==
                    generate_friendly_response(q, SliceTo(ranked_places, 10), info, env)
            IN  [outcome |->
                    IF response_text.raised THEN response_text
                    ELSE Returned([success |-> TRUE,
                                   query |-> q,
                                   type |-> Get(info, "type", "unknown"),
                                   ai_message |-> response_text.value,
                                   suggestions |-> SliceTo(ranked_places, 10)]),
                 prompt |-> Sent(FriendlyPrompt(q, SliceTo(ranked_places, 10), info))]

query_places(payload, env, file) ==
    LET try == QueryPlacesTry(payload, env, file)
    IN  [outcome |-> RaiseHttp500(try.outcome), prompt |-> try.prompt]

\* counts[key] = counts.get(key, 0) + 1
Increment(counts, key) ==
    [k \in DOMAIN counts \cup {key} |->
        IF k = key THEN Get(counts, key, 0) + 1 ELSE counts[k]]

\* a plausible slip: a place is counted under its first category only
CountEach_first_only(counts, categories) ==
    IF categories = << >> THEN counts ELSE Increment(counts, Head(categories))

\* for c in categories: category_counts[c] = category_counts.get(c, 0) + 1
RECURSIVE CountEach(_, _)
CountEach(counts, categories) ==
    IF categories = << >> THEN counts
    ELSE CountEach(Increment(counts, Head(categories)), Tail(categories))

\* division_counts after the loop over ps, starting from counts
RECURSIVE DivisionCounts(_, _)
DivisionCounts(counts, ps) ==
    IF ps = << >> THEN counts
    ELSE DivisionCounts(Increment(counts, Get(Head(ps), "division", <<"U","n","k","n","o","w","n">>)),
                        Tail(ps))

\* category_counts after the loop over ps, starting from counts
RECURSIVE CategoryCounts(_, _)
CategoryCounts(counts, ps) ==
    IF ps = << >> THEN counts
    ELSE CategoryCounts(CountEach(counts, Get(Head(ps), "categories", << <<"G","e","n","e","r","a","l">> >>)),
                        Tail(ps))

\* sum(1 for p in places if p.get(field))
CountWith(ps, field) ==
    Cardinality({i \in DOMAIN ps : Get(ps[i], field, << >>) # << >>})

EmptyDict == << >>

\* the try block of the GET /api/stats handler
GetStatsTry(env, file) ==
    LET loaded == load_places_data(env, file)
    IN  IF loaded.raised THEN loaded
        ELSE Returned(
               [success |-> TRUE,
                data |-> [total_places |-> Len(loaded.value),
                          by_division |-> DivisionCounts(EmptyDict, loaded.value),
                          by_category |-> CategoryCounts(EmptyDict, loaded.value),
                          places_with_images |-> CountWith(loaded.value, "image"),
                          places_with_descriptions |->
                              CountWith(loaded.value, "description")]])

get_stats(env, file) == RaiseHttp500(GetStatsTry(env, file))

(***************************************************************************)
(* The serving process: requests arrive one after another                   *)
(***************************************************************************)
\* longest dataset drawn from ServePool
MaxServePlaces == 2

Kuakata ==
    Place(<<"K","u","a","k","a","t","a">>, <<"B","a","r","i","s","a","l">>,
          <<"a"," ","s","e","a"," ","b","e","a","c","h"," ","w","i","t","h"," ","a"," ","h","e","r","i","t","a","g","e"," ","t","e","m","p","l","e",","," ","s","u","n","r","i","s","e"," ","a","n","d"," ","s","u","n","s","e","t"," ","v","i","e","w","s">>,
          <<"w","i","k","i","/","K","u","a","k","a","t","a">>, <<"k",".","j","p","g">>, << <<"B","e","a","c","h">>, <<"H","i","s","t","o","r","i","c","a","l">> >>)

ServePool == {Ratargul, VillagePond, Kuakata}

\* the three places of the stats example: Beach; Beach, Historical; General
StatsExample == <<CoxsBazar, Kuakata, Jaflong>>

\* six places of the Sylhet division
SylhetPlace(i) ==
    Place(<<"T","e","a"," ","G","a","r","d","e","n"," ">> \o Str(i), <<"S","y","l","h","e","t">>, << >>, << >>, << >>, << <<"T","e","a"," ","G","a","r","d","e","n">> >>)
SylhetSix == [i \in 1..6 |-> SylhetPlace(i)]

ServeCollections ==
    InjectiveSeqs(ServePool, MaxServePlaces) \cup {StatsExample, SylhetSix}

ServeQueries == {Q_top5_sylhet, <<"h","e","l","l","o">>, <<"s","e","a"," ","b","e","a","c","h">>}

TopKs == {-1, 2, top_k_default}

Payloads == {[query |-> <<" "," ","t","o","p"," ","5"," ","s","p","o","t","s"," ","i","n"," ","S","y","l","h","e","t"," ">>], [query |-> <<" "," "," ">>],
             [message |-> Q_top5_sylhet]}

InitServe ==
    /\ pc = "serving"
    /\ query = << >>
    /\ location_info = NoInfo
    /\ ranked = << >>
    /\ places \in ServeCollections
    /\ IndexIdle
    /\ ServeIdle

serve_frame == <<pc, query, places, location_info, ranked>>

GetTourSuggestions ==
    /\ pc = "serving"
    /\ \E q \in ServeQueries, top_k \in TopKs, env \in Envs :
         LET result == get_tour_suggestions(q, top_k, env, places)
         IN  /\ request' = [endpoint |-> "get_tour_suggestions", query |-> q,
                            top_k |-> top_k, env |-> env]
             /\ response' = result.outcome
             /\ llm_prompt' = result.prompt
    /\ UNCHANGED serve_frame
    /\ UNCHANGED index_vars

QueryPlaces ==
    /\ pc = "serving"
    /\ \E payload \in Payloads, env \in Envs :
         LET result == query_places(payload, env, places)
         IN  /\ request' = [endpoint |-> "query_places", payload |-> payload, env |-> env]
             /\ response' = result.outcome
             /\ llm_prompt' = result.prompt
    /\ UNCHANGED serve_frame
    /\ UNCHANGED index_vars

GetStats ==
    /\ pc = "serving"
    /\ \E env \in {e \in Envs : ~e.generate_fails} :    \* no text is generated
         /\ request' = [endpoint |-> "get_stats", env |-> env]
         /\ response' = get_stats(env, places)
         /\ llm_prompt' = NoPrompt
    /\ UNCHANGED serve_frame
    /\ UNCHANGED index_vars

NextServe ==
    \/ GetTourSuggestions
    \/ QueryPlaces
    \/ GetStats

SpecServe == InitServe /\ [][NextServe]_vars

(***************************************************************************)
(* Properties of the keyword pipeline                                      *)
(***************************************************************************)
Score(p) == calculate_relevance_score(p, location_info)

Extracted == pc # "start"

MatchingLandmarks ==
    {i \in DOMAIN specific_places : EntryMatches(specific_places[i], Lower(query))}

MatchingDivisions ==
    {i \in DOMAIN divisions : EntryMatches(divisions[i], Lower(query))}

\* C1 as stated: whenever the query contains, in any casing, a keyword of a
\* landmark, the intent is 'specific' and its location is that landmark.
C1_AnyMatchedLandmarkIsLocation ==
    Extracted =>
        \A i \in MatchingLandmarks :
            /\ location_info.type = "specific"
            /\ location_info.location = specific_places[i].name

\* C1 amended: whenever the query contains, in any casing, a keyword of a
\* landmark, the intent is 'specific' (also when a division keyword or a country
\* term is present) and its location is the first landmark, in table order, that
\* has a keyword in the query; so it is that landmark when no other one matches.
C1_FirstMatchedLandmarkIsLocation ==
    Extracted =>
        \A i \in MatchingLandmarks :
            /\ location_info.type = "specific"
            /\ \E j \in MatchingLandmarks : location_info.location = specific_places[j].name
            /\ (\A j \in MatchingLandmarks : i <= j)
                   => /\ location_info.location = specific_places[i].name
                      /\ location_info.search_keywords
                             = <<specific_places[i].name>> \o specific_places[i].keywords

\* an upper-case landmark keyword next to a division keyword was extracted as the landmark
C1_Witness ==
    /\ Extracted
    /\ query # Lower(query)
    /\ Cardinality(MatchingLandmarks) = 1
    /\ MatchingDivisions # {}
    /\ location_info.type = "specific"

\* C2 as stated: a query whose only count phrase is "top N", "N spot" or
\* "N place", N in 1..50, yields count N; a query without count phrase yields 10.
C2_CountIsRequestedNumber ==
    Extracted =>
        /\ \A n \in 1..MaxNum :
               query \in {TopQuery(n), SpotQuery(n), PlaceQuery(n)} => location_info.count = n
        /\ (\A n \in 1..MaxNum : ~ CountPhraseIn(n, Lower(query)))
               => location_info.count = DefaultCount

Ranked == pc = "ranked"

RECURSIVE WithScore(_, _)
WithScore(ps, s) ==
    IF ps = << >> THEN << >>
    ELSE (IF Score(Head(ps)) = s THEN <<Head(ps)>> ELSE << >>) \o WithScore(Tail(ps), s)

\* C3: the ranked list is in non-increasing score order, and the places of one
\* score stand in it in the order they have in the input collection.
C3_SortedStable ==
    Ranked =>
        /\ \A i \in 1..(Len(ranked) - 1) : Score(ranked[i]) >= Score(ranked[i + 1])
        /\ \A i \in DOMAIN ranked :
               WithScore(ranked, Score(ranked[i])) = WithScore(places, Score(ranked[i]))

\* two places tie behind a lower-scored place that comes first in the input
C3_Witness ==
    /\ Ranked
    /\ \E i, j \in DOMAIN ranked :
           i < j /\ ranked[i] # ranked[j] /\ Score(ranked[i]) = Score(ranked[j])
    /\ \E i, j \in DOMAIN places :
           i < j /\ Score(places[i]) < Score(places[j]) /\ Score(places[i]) > 5

CountIn(s, x) == Cardinality({i \in DOMAIN s : s[i] = x})

\* C4: the ranked list holds exactly the input places that score above 5, each
\* as often as the input holds it.
C4_ExactlyAboveThreshold ==
    Ranked =>
        \A p \in Range(places) \cup Range(ranked) :
            CountIn(ranked, p) = IF Score(p) > 5 THEN CountIn(places, p) ELSE 0

\* a place scoring exactly 5 was dropped while another place was kept
C4_Witness ==
    /\ Ranked
    /\ \E p \in Range(places) : Score(p) = 5 /\ p \notin Range(ranked)
    /\ ranked # << >>

FamousKeywordsIn(p) ==
    {k \in DOMAIN famous_keywords :
        \/ Contains(famous_keywords[k], Lower(p.name))
        \/ Contains(famous_keywords[k], Lower(p.description))}

\* C5: under a 'general' intent a place without famous keyword scores 0 and is
\* not ranked; one with a famous keyword scores 30, +5 for a description longer
\* than 50 characters, +5 for an image, and at most 40.
C5_GeneralScores ==
    (Extracted /\ location_info.type = "general") =>
        \A p \in Range(places) :
            IF FamousKeywordsIn(p) = {}
            THEN Score(p) = 0 /\ (Ranked => p \notin Range(ranked))
            ELSE /\ Score(p) = 30 + (IF Len(p.description) > 50 THEN 5 ELSE 0)
                                  + (IF p.image # << >> THEN 5 ELSE 0)
                 /\ Score(p) <= 40

\* a detailed, imaged place without famous keyword was excluded, and a place
\* matching several famous keywords scored 40
C5_Witness ==
    /\ Ranked
    /\ location_info.type = "general"
    /\ \E p \in Range(places) :
           FamousKeywordsIn(p) = {} /\ Len(p.description) > 50 /\ p.image # << >>
    /\ \E p \in Range(places) : Cardinality(FamousKeywordsIn(p)) > 1 /\ Score(p) = 40

\* the place mentions the keyword in its description and in no other field
OnlyDescriptionMentions(p, keyword) ==
    /\ Contains(keyword, Lower(p.description))
    /\ ~ Contains(keyword, Lower(p.name))
    /\ ~ Contains(keyword, Lower(p.url))
    /\ ~ Contains(keyword, Lower(p.division))

RankedAbove(a, b) ==
    /\ a \in Range(ranked)
    /\ \A i, j \in DOMAIN ranked : (ranked[i] = a /\ ranked[j] = b) => i < j

\* C6: "top 5 spots in Sylhet" yields location sylhet, type division, count 5,
\* keywords [sylhet], and every place of division Sylhet is ranked above every
\* place of another division that mentions Sylhet only in its description.
C6_SylhetExample ==
    query = Q_top5_sylhet =>
        /\ Extracted =>
               location_info = [location |-> <<"s","y","l","h","e","t">>, type |-> "division", count |-> 5,
                                search_keywords |-> << <<"s","y","l","h","e","t">> >>]
        /\ Ranked =>
               \A a, b \in Range(places) :
                   (/\ a.division = <<"S","y","l","h","e","t">>
                    /\ b.division # <<"S","y","l","h","e","t">>
                    /\ OnlyDescriptionMentions(b, <<"s","y","l","h","e","t">>))
                       => RankedAbove(a, b)

\* a Sylhet place that follows a description-only place in the input precedes it
\* in the ranked list
C6_Witness ==
    /\ query = Q_top5_sylhet
    /\ Ranked
    /\ \E i, j \in DOMAIN places :
           /\ i < j
           /\ places[j].division = <<"S","y","l","h","e","t">>
           /\ places[i].division # <<"S","y","l","h","e","t">>
           /\ OnlyDescriptionMentions(places[i], <<"s","y","l","h","e","t">>)
           /\ ranked = <<places[j], places[i]>>

NoNameMatch(p) ==
    \A k \in DOMAIN location_info.search_keywords :
        ~ Contains(Lower(location_info.search_keywords[k]), Lower(p.name))

\* C7: for the intent of "Cox's Bazar" (location cox's bazar, type specific) a
\* place named exactly "Cox's Bazar" scores strictly more than any place whose
\* name matches no keyword and that mentions Cox's Bazar only in its description.
C7_CoxsBazarExample ==
    (query = Q_coxs_bazar /\ Extracted) =>
        /\ location_info.location = <<"c","o","x","'","s"," ","b","a","z","a","r">>
        /\ location_info.type = "specific"
        /\ \A a, b \in Range(places) :
               (/\ a.name = <<"C","o","x","'","s"," ","B","a","z","a","r">>
                /\ NoNameMatch(b)
                /\ OnlyDescriptionMentions(b, <<"c","o","x","'","s"," ","b","a","z","a","r">>))
                   => Score(a) > Score(b)

\* both kinds of place were scored, the description-only one above 15
C7_Witness ==
    /\ query = Q_coxs_bazar
    /\ Ranked
    /\ \E a, b \in Range(places) :
           /\ a.name = <<"C","o","x","'","s"," ","B","a","z","a","r">>
           /\ NoNameMatch(b)
           /\ OnlyDescriptionMentions(b, <<"c","o","x","'","s"," ","b","a","z","a","r">>)
           /\ Score(b) > 15
           /\ ranked = <<a, b>>

\* the search keywords (with repetition) that occur in the description
KeywordsInDescription(p) ==
    {k \in DOMAIN location_info.search_keywords :
        Contains(Lower(location_info.search_keywords[k]), Lower(p.description))}

\* a place that mentions the landmark in its description and matches it in no
\* other field
MerelyMentions(p) ==
    /\ NoNameMatch(p)
    /\ KeywordsInDescription(p) # {}
    /\ \A k \in DOMAIN location_info.search_keywords :
           /\ ~ Contains(Lower(location_info.search_keywords[k]), Lower(p.url))
           /\ ~ Contains(Lower(location_info.search_keywords[k]), Lower(p.division))

\* C8 as stated: under a 'specific' intent a place that merely mentions the
\* landmark in its description scores at most 15.
C8_MentionScoresAtMost15 ==
    (Extracted /\ location_info.type = "specific") =>
        \A p \in Range(places) : MerelyMentions(p) => Score(p) <= 15

\* C8 amended: such a place scores 15 for every search keyword, counted with
\* repetition, that occurs in its description: at most 15 times the number of
\* search keywords (75 for cox's bazar), and at least 30 when the description
\* holds the landmark's canonical name, which the keyword list holds twice.
C8_MentionScores15PerKeyword ==
    (Extracted /\ location_info.type = "specific") =>
        \A p \in Range(places) :
            MerelyMentions(p) =>
                /\ Score(p) = 15 * Cardinality(KeywordsInDescription(p))
                /\ Score(p) <= 15 * Len(location_info.search_keywords)
                /\ Contains(location_info.location, Lower(p.description)) => Score(p) >= 30

\* a description-only place scored 75 under the cox's bazar intent
C8_Witness ==
    /\ Extracted
    /\ location_info.type = "specific"
    /\ \E p \in Range(places) : MerelyMentions(p) /\ Score(p) = 75

(***************************************************************************)
(* Properties of the vector index                                          *)
(***************************************************************************)
Queried == search_I # << >>

\* C9 as stated: after a completed build, for every index position i the i-th
\* record of the place-mapping file is the place whose "name: description" text
\* was embedded into position i; and a lookup of a search hit returns the record
\* its vector was built from.
C9_MappingAlignedWithIndex ==
    /\ build_pc = "done" =>
           /\ Len(index_file.content) <= Len(mapping_file.content)
           /\ \A i \in DOMAIN index_file.content :
                  index_file.content[i] = Embed(TextOf(mapping_file.content[i]))
    /\ (Queried /\ ~ retrieved.raised) =>
           \A j \in DOMAIN search_I :
               search_I[j] >= 0 =>
                   q_index.content[search_I[j] + 1] = Embed(TextOf(retrieved.spots[j]))

\* C10 as stated: a search with k above the index population returns exactly
\* the population, each indexed position once, nearest first, and does not fail.
C10_SearchBeyondPopulationReturnsPopulation ==
    (Queried /\ TOP_K > Len(q_index.content)) =>
        /\ ~ retrieved.raised
        /\ Len(retrieved.spots) = Len(q_index.content)
        /\ \A j \in DOMAIN retrieved.spots : search_I[j] \in 0..(Len(q_index.content) - 1)
        /\ \A i, j \in DOMAIN retrieved.spots : i # j => search_I[i] # search_I[j]
        /\ \A j \in 1..(Len(retrieved.spots) - 1) : search_D[j] <= search_D[j + 1]

BuildEnded == build_pc \in {"done", "failed"}

\* both files are the result of the completed build of places
FilesFromThisBuild ==
    /\ index_file = [exists |-> TRUE,
                     content |-> [i \in DOMAIN Texts(places) |-> Embed(Texts(places)[i])]]
    /\ mapping_file = [exists |-> TRUE, content |-> places]

\* both files are as they were before the run
FilesAsBeforeTheRun ==
    \/ index_file = NoFile /\ mapping_file = NoFile
    \/ index_file = OldIndexFile /\ mapping_file = OldMappingFile

\* C11 as stated: when create_embeddings has ended, by completing or by failing
\* at any step, the index file and the mapping file are either both the result
\* of the completed build or both unchanged from before the run.
C11_BuildAllOrNothing ==
    BuildEnded => (FilesFromThisBuild \/ FilesAsBeforeTheRun)

HasScoreField(place) == "_relevance_score" \in DOMAIN place

\* C16: every call of filter_and_rank_places leaves the input collection with
\* the same records in the same order, none of which has gained a
\* '_relevance_score' field, and returns records without that field.
C16_RankingLeavesInputUnchanged ==
    [][FilterAndRankPlaces =>
         /\ places' = places
         /\ \A i \in DOMAIN places' : ~HasScoreField(places'[i])
         /\ \A i \in DOMAIN ranked' : ~HasScoreField(ranked'[i])]_vars

\* a second call has returned: some places were kept and some were dropped
C16_Witness ==
    /\ Ranked
    /\ Len(ranked) >= 2
    /\ Len(ranked) < Len(places)

Failure(message) == Returned([success |-> FALSE, error |-> message])

Failed(resp) == resp.raised \/ ~resp.value.success

\* C12: every call of get_tour_suggestions returns; when loading the dataset
\* fails or the text-generation call fails it returns the structured failure
\* {success: false, error: <the exception's message>}; and a call in which
\* neither fails, made after a failed request, succeeds exactly when the
\* dataset has a place scoring above 5, with the dataset as it was.
C12_NeverRaisesStructuredFailure ==
    [][request'.endpoint = "get_tour_suggestions" =>
         /\ ~response'.raised
         /\ request'.env.load_fails => response' = Failure(LoadError)
         /\ (llm_prompt'.sent /\ request'.env.generate_fails)
                => response' = Failure(GenerateError)
         /\ (Failed(response) /\ ~request'.env.load_fails
                              /\ ~request'.env.generate_fails)
                => /\ places' = places
                   /\ response'.value.success =
                        (\E i \in DOMAIN places :
                            calculate_relevance_score(
                                places[i], extract_location_info(request'.query)) > 5)
                   /\ response'.value.success =>
                        response'.value.suggestions =
                            SliceTo(filter_and_rank_places(
                                        places, extract_location_info(request'.query)),
                                    request'.top_k)]_vars

\* the text-generation call has failed and the caller got the structured failure
C12_Witness ==
    /\ request.endpoint = "get_tour_suggestions"
    /\ ~request.env.load_fails
    /\ request.env.generate_fails
    /\ llm_prompt.sent
    /\ response = Failure(GenerateError)

SuccessFields ==
    {"success", "query", "location", "type", "count", "suggestions", "ai_message"}

\* C13 as stated: every successful response of get_tour_suggestions or of the
\* POST /api/query handler carries success, query, location, type, count,
\* suggestions and ai_message, with count the number of suggestions.
C13_SuccessResponseHasAllFields ==
    (/\ request.endpoint \in {"get_tour_suggestions", "query_places"}
     /\ ~response.raised
     /\ response.value.success)
        => /\ SuccessFields \subseteq DOMAIN response.value
           /\ response.value.count = Len(response.value.suggestions)

RECURSIVE SumOver(_, _)
SumOver(counts, keys) ==
    IF keys = {} THEN 0
    ELSE LET k == CHOOSE x \in keys : TRUE
         IN  counts[k] + SumOver(counts, keys \ {k})

RECURSIVE CategoryEntries(_)
CategoryEntries(ps) ==
    IF ps = << >> THEN 0 ELSE Len(Head(ps).categories) + CategoryEntries(Tail(ps))

PlacesIn(c) == {i \in DOMAIN places : c \in Range(places[i].categories)}

StatsReturned == request.endpoint = "get_stats" /\ ~response.raised

\* C14: in the stats a place counts once in each of its category buckets, so
\* every bucket holds the number of places listing that category, the category
\* counts sum to the number of category entries and the division counts sum to
\* total_places; for the categories [Beach], [Beach, Historical], [General] the
\* category counts are Beach 2, Historical 1, General 1.
C14_StatsCountEveryCategory ==
    StatsReturned =>
        LET data == response.value.data
        IN  /\ DOMAIN data.by_category =
                  UNION {Range(places[i].categories) : i \in DOMAIN places}
            /\ \A c \in DOMAIN data.by_category :
                  data.by_category[c] = Cardinality(PlacesIn(c))
            /\ SumOver(data.by_category, DOMAIN data.by_category) = CategoryEntries(places)
            /\ data.total_places = Len(places)
            /\ SumOver(data.by_division, DOMAIN data.by_division) = data.total_places
            /\ places = StatsExample =>
                  /\ DOMAIN data.by_category = { <<"B","e","a","c","h">>, <<"H","i","s","t","o","r","i","c","a","l">>, <<"G","e","n","e","r","a","l">> }
                  /\ data.by_category[ <<"B","e","a","c","h">> ] = 2
                  /\ data.by_category[ <<"H","i","s","t","o","r","i","c","a","l">> ] = 1
                  /\ data.by_category[ <<"G","e","n","e","r","a","l">> ] = 1

\* the stats of the three example places have been returned
C14_Witness ==
    /\ StatsReturned
    /\ places = StatsExample
    /\ response.value.data.by_category[ <<"B","e","a","c","h">> ] = 2

AskedIntent == extract_location_info(request.query)

\* get_tour_suggestions has read the dataset for a query of unknown intent
UnknownAsked ==
    /\ request.endpoint = "get_tour_suggestions"
    /\ ~request.env.load_fails
    /\ AskedIntent.type = "unknown"

\* C15: for a query that matches no landmark, no division and no generic
\* country term, every place of the dataset scores 0, filter_and_rank_places
\* returns the empty list, and get_tour_suggestions returns success = false
\* with the "no matching" error without calling the text generator.
C15_UnknownIntentFindsNothing ==
    UnknownAsked =>
        /\ \A i \in DOMAIN places : calculate_relevance_score(places[i], AskedIntent) = 0
        /\ filter_and_rank_places(places, AskedIntent) = << >>
        /\ response = Failure(NoMatchError)
        /\ ~llm_prompt.sent

\* the query's words are in a place's description, and nothing is found
C15_Witness ==
    /\ UnknownAsked
    /\ \E i \in DOMAIN places : Contains(Lower(request.query), Lower(places[i].description))
    /\ response = Failure(NoMatchError)

\* the counts an intent is compared under
CountsCompared == {1, 3, 5, DefaultCount, MaxNum}

NumberAbove5(ps, info) ==
    Cardinality({i \in DOMAIN ps : calculate_relevance_score(ps[i], info) > 5})

SmallerOf(a, b) == IF a < b THEN a ELSE b

\* get_tour_suggestions has read the dataset
DatasetRead ==
    /\ request.endpoint = "get_tour_suggestions"
    /\ ~request.env.load_fails

\* the ranking is the same under every count put in the intent
SameRankingUnderEveryCount ==
    \A c \in CountsCompared :
        filter_and_rank_places(places, [AskedIntent EXCEPT !.count = c])
            = filter_and_rank_places(places, AskedIntent)

\* C17 as stated: the count of the intent has no influence on the ranking, and
\* a successful get_tour_suggestions returns min(top_k, number of places
\* scoring above 5) suggestions.
C17_CountIgnoredMinTopK ==
    DatasetRead =>
        /\ SameRankingUnderEveryCount
        /\ response.value.success =>
              Len(response.value.suggestions)
                  = SmallerOf(request.top_k, NumberAbove5(places, AskedIntent))

\* C17 amended: the count of the intent has no influence on the ranking, and a
\* successful get_tour_suggestions returns the python slice [:top_k] of the
\* n places scoring above 5: min(top_k, n) suggestions when top_k >= 0, and
\* max(0, n + top_k) when top_k is negative.
C17_CountIgnoredSliceTopK ==
    DatasetRead =>
        /\ SameRankingUnderEveryCount
        /\ response.value.success =>
              LET n == NumberAbove5(places, AskedIntent)
              IN  /\ request.top_k >= 0
                        => Len(response.value.suggestions) = SmallerOf(request.top_k, n)
                  /\ request.top_k < 0
                        => Len(response.value.suggestions)
                              = (IF n + request.top_k > 0 THEN n + request.top_k ELSE 0)
                  /\ response.value.count = Len(response.value.suggestions)

\* "top 5 spots in Sylhet" has returned more than 5 suggestions
C17_Witness ==
    /\ DatasetRead
    /\ request.query = Q_top5_sylhet
    /\ AskedIntent.count = 5
    /\ response.value.success
    /\ Len(response.value.suggestions) > 5

====
